---- MODULE Spec2Model ----
(***************************************************************************)
(* Model of the WhatsApp appointment bot (src/backend/app.py and its       *)
(* variant src/backend/_app.py): the webhook handler whatsapp_reply, the   *)
(* dispatcher send_interactive_message, and the two periodic sweeps        *)
(* send_reminder and send_follow_up over the appointments collection.      *)
(*                                                                         *)
(* Message bodies are TLA+ strings and every test the code makes on them   *)
(* (lower(), `in`, len(), title(), strptime) is computed character by      *)
(* character.  Timestamps are minutes since 0001-01-01 00:00, the          *)
(* resolution of the '%Y-%m-%d %H:%M' format; datetime.now() is the        *)
(* variable now, advanced by Tick.                                         *)
(***************************************************************************)
EXTENDS Integers, Sequences, FiniteSets, TLC

(***************************************************************************)
(* Bounds of the model.                                                    *)
(***************************************************************************)
\* appointments.insert_one is called at most this many times in a behaviour
MaxAppointments == 2
\* the clock advances at most this many times (one hour each)
MaxTicks == 2
\* update_one fails at most this many times in a behaviour, once per document
\* and flag
MaxUpdateFailures == 1

\* the longest list of choices handed to send_interactive_message
MaxChoices == 6
\* the clock advances by a whole day at most this many times
MaxDays == 1

(***************************************************************************)
(* Program constants.                                                      *)
(***************************************************************************)
\* len(incoming_msg) == 16
DateEntryLen == 16
\* now + timedelta(hours=23)
ReminderFromHours == 23
\* now + timedelta(hours=25)
ReminderToHours == 25
\* now - timedelta(hours=24)
FollowUpHours == 24
\* app.py: if len(buttons) > 3: buttons = buttons[:3]
MaxButtons == 3
\* _app.py: max_buttons_per_message = 5
MaxButtonsPerMessage == 5
\* _app.py: if len(buttons) > 2: buttons = buttons[:2]
MaxButtonsSingle == 2

(***************************************************************************)
(* str methods.                                                            *)
(***************************************************************************)
UpperChars == "ABCDEFGHIJKLMNOPQRSTUVWXYZ"
LowerChars == "abcdefghijklmnopqrstuvwxyz"
DigitChars == "0123456789"

CharAt(s, i) == SubSeq(s, i, i)

\* 0 when c does not occur in chars, else its 1-based position
IndexIn(chars, c) ==
    IF \E i \in 1..Len(chars) : CharAt(chars, i) = c
    THEN CHOOSE i \in 1..Len(chars) : CharAt(chars, i) = c
    ELSE 0

IsUpper(c) == IndexIn(UpperChars, c) > 0
IsLower(c) == IndexIn(LowerChars, c) > 0
IsCased(c) == IsUpper(c) \/ IsLower(c)
IsDigit(c) == IndexIn(DigitChars, c) > 0

LowerChar(c) == IF IsUpper(c) THEN CharAt(LowerChars, IndexIn(UpperChars, c)) ELSE c
UpperChar(c) == IF IsLower(c) THEN CharAt(UpperChars, IndexIn(LowerChars, c)) ELSE c

\* str.lower()
RECURSIVE Lower(_)
Lower(s) ==
    IF Len(s) = 0 THEN ""
    ELSE LowerChar(CharAt(s, 1)) \o Lower(SubSeq(s, 2, Len(s)))

\* str.title(): a cased character is upper-cased when the character before
\* it is not cased, lower-cased otherwise
RECURSIVE TitleFrom(_, _)
TitleFrom(s, prevCased) ==
    IF Len(s) = 0 THEN ""
    ELSE LET c == CharAt(s, 1)
         IN  (IF prevCased THEN LowerChar(c) ELSE UpperChar(c))
             \o TitleFrom(SubSeq(s, 2, Len(s)), IsCased(c))

Title(s) == TitleFrom(s, FALSE)

\* p in s
Contains(s, p) ==
    \E i \in 1..(Len(s) - Len(p) + 1) : SubSeq(s, i, i + Len(p) - 1) = p

(***************************************************************************)
(* datetime.strptime(s, '%Y-%m-%d %H:%M') on a 16-character string, and    *)
(* the datetime it returns as minutes since 0001-01-01 00:00.              *)
(***************************************************************************)
DigitVal(c) == IndexIn(DigitChars, c) - 1

AllDigits(s) == \A i \in 1..Len(s) : IsDigit(CharAt(s, i))

RECURSIVE ToInt(_)
ToInt(s) ==
    IF Len(s) = 0 THEN 0
    ELSE 10 * ToInt(SubSeq(s, 1, Len(s) - 1)) + DigitVal(CharAt(s, Len(s)))

IsLeap(y) == (y % 4 = 0) /\ ((y % 100 # 0) \/ (y % 400 = 0))

DaysInMonth(y, m) ==
    IF m = 2 THEN (IF IsLeap(y) THEN 29 ELSE 28)
    ELSE IF m \in {4, 6, 9, 11} THEN 30 ELSE 31

RECURSIVE DaysBeforeMonth(_, _)
DaysBeforeMonth(y, m) ==
    IF m = 1 THEN 0 ELSE DaysBeforeMonth(y, m - 1) + DaysInMonth(y, m - 1)

DaysBeforeYear(y) ==
    (y - 1) * 365 + ((y - 1) \div 4) - ((y - 1) \div 100) + ((y - 1) \div 400)

Hours(h) == h * 60

\* the datetime (y, m, d, hh, mm) in minutes
Timestamp(y, m, d, hh, mm) ==
    (DaysBeforeYear(y) + DaysBeforeMonth(y, m) + (d - 1)) * 1440 + Hours(hh) + mm

\* s has the shape dddd-dd-dd dd:dd.  strptime also accepts a one-digit
\* month, day, hour or minute and a run of spaces between date and time;
\* none of the bodies of the model has 16 characters in such a form, so on
\* them strptime accepts exactly the strings of this shape with fields in range
DateShape(s) ==
    /\ Len(s) = DateEntryLen
    /\ AllDigits(SubSeq(s, 1, 4))   /\ CharAt(s, 5) = "-"
    /\ AllDigits(SubSeq(s, 6, 7))   /\ CharAt(s, 8) = "-"
    /\ AllDigits(SubSeq(s, 9, 10))  /\ CharAt(s, 11) = " "
    /\ AllDigits(SubSeq(s, 12, 13)) /\ CharAt(s, 14) = ":"
    /\ AllDigits(SubSeq(s, 15, 16))

\* strptime raises ValueError
ParseFails(s) ==
    \/ ~DateShape(s)
    \/ LET y  == ToInt(SubSeq(s, 1, 4))
           m  == ToInt(SubSeq(s, 6, 7))
           d  == ToInt(SubSeq(s, 9, 10))
           hh == ToInt(SubSeq(s, 12, 13))
           mm == ToInt(SubSeq(s, 15, 16))
       IN  \/ y < 1
           \/ m < 1 \/ m > 12
           \/ d < 1 \/ (m \in 1..12 /\ d > DaysInMonth(y, m))
           \/ hh > 23
           \/ mm > 59

\* strptime's result, for a string on which it does not raise
ParseDate(s) ==
    Timestamp(ToInt(SubSeq(s, 1, 4)), ToInt(SubSeq(s, 6, 7)),
              ToInt(SubSeq(s, 9, 10)), ToInt(SubSeq(s, 12, 13)),
              ToInt(SubSeq(s, 15, 16)))

(***************************************************************************)
(* Inputs of the model.                                                    *)
(***************************************************************************)
\* request.values.get('From', '')
Senders == {"whatsapp:+1001", "whatsapp:+1002"}

\* datetime.now() when the process starts
StartTime == Timestamp(2098, 12, 31, 9, 0)

\* request.values.get('Body', ''), before lower()
Bodies ==
    { "Hello there", "this haircut",
      "book_later", "cancel_booking",
      "Haircut", "consultation pls",
      "2099-01-01 11:00",      \* StartTime + 26 h
      "2098-12-31 10:00",      \* StartTime + 1 h
      "2099-13-01 10:00",      \* 16 characters, no such month
      "book 2099-01-01 ",      \* 16 characters, contains "book"
      "thanks" }

\* the recipient hardcoded in _app.py's date branch
HardcodedRecipient == "whatsapp:+918411005883"

(***************************************************************************)
(* State.                                                                  *)
(***************************************************************************)
VARIABLES
    variant,             \* which of the two source files runs: "app" or "_app"
    now,                 \* datetime.now(), in minutes
    appointments,        \* the collection db['appointments']: a set of documents
    next_id,             \* the _id insert_one gives the next document
    last,                \* the request handled by the step just taken, and its outcome
    reminder_cursor,     \* send_reminder: the documents its loop has still to visit
    follow_up_cursor,    \* send_follow_up: the documents its loop has still to visit
    reminders,           \* per _id: reminder messages the provider accepted
    follow_ups,          \* per _id: follow-up messages the provider accepted
    reminder_lost,       \* _ids whose reminder_sent update failed after the send
    follow_up_lost,      \* _ids whose follow_up_sent update failed after the send
    reminder_skipped     \* _ids a reminder query left out because reminder_sent was set

vars == << variant, now, appointments, next_id, last, reminder_cursor,
           follow_up_cursor, reminders, follow_ups, reminder_lost,
           follow_up_lost, reminder_skipped >>

Ids == 1..MaxAppointments

NoReply == [kind |-> "none", service |-> "", date |-> 0]

TextReply(kind) == [kind |-> kind, service |-> "", date |-> 0]

\* no request was handled by the step just taken
NoRequest ==
    [ from |-> "", body |-> "", status |-> 0, fault |-> "none", branch |-> "none",
      reply |-> NoReply, calls |-> << >>, outbox |-> << >>, result |-> "none",
      reads |-> 0, writes |-> 0 ]

(***************************************************************************)
(* The dispatcher: send_interactive_message.  ok is the provider's answer  *)
(* to twilio_client.messages.create (FALSE: it raises).  The result is the *)
(* messages the provider accepted and the value returned to the caller.    *)
(***************************************************************************)
ButtonsMessage(to, buttons) == [to |-> to, kind |-> "buttons", buttons |-> buttons]

TextMessage(to, kind) == [to |-> to, kind |-> kind, buttons |-> << >>]

\* a slip of the slice: buttons[:cap - 1], taken as soon as the cap is reached
TruncateOffByOne(buttons, cap) ==
    IF Len(buttons) >= cap THEN SubSeq(buttons, 1, cap - 1) ELSE buttons

Truncate(buttons, cap) ==
    IF Len(buttons) > cap THEN SubSeq(buttons, 1, cap) ELSE buttons

\* app.py: truncate to MaxButtons, one provider call
send_interactive_message_app(to, buttons, ok) ==
    IF ok
    THEN [sent |-> << ButtonsMessage(to, Truncate(buttons, MaxButtons)) >>,
          result |-> "sid"]
    ELSE [sent |-> << >>, result |-> "None"]

\* _app.py: truncate to MaxButtonsSingle, one provider call, its own try/except
send_single_interactive_message(to, buttons, ok) ==
    IF ok
    THEN [sent |-> << ButtonsMessage(to, Truncate(buttons, MaxButtonsSingle)) >>,
          result |-> "sid"]
    ELSE [sent |-> << >>, result |-> "None"]

\* _app.py: buttons[i:i + max_buttons_per_message] for i in range(0, len, max)
ButtonChunks(buttons) ==
    [ k \in 1..((Len(buttons) + MaxButtonsPerMessage - 1) \div MaxButtonsPerMessage) |->
        SubSeq(buttons, (k - 1) * MaxButtonsPerMessage + 1,
               IF k * MaxButtonsPerMessage < Len(buttons)
               THEN k * MaxButtonsPerMessage ELSE Len(buttons)) ]

RECURSIVE SendChunks(_, _, _)
SendChunks(to, chunks, ok) ==
    IF Len(chunks) = 0 THEN << >>
    ELSE send_single_interactive_message(to, Head(chunks), ok).sent
         \o SendChunks(to, Tail(chunks), ok)

\* _app.py: one send_single_interactive_message per chunk, then return True
send_interactive_message_chunked(to, buttons, ok) ==
    [sent |-> SendChunks(to, ButtonChunks(buttons), ok), result |-> "True"]

send_interactive_message(v, to, buttons, ok) ==
    IF v = "app"
    THEN send_interactive_message_app(to, buttons, ok)
    ELSE send_interactive_message_chunked(to, buttons, ok)

\* the most choices one message carries: buttons[:3] in app.py, buttons[:2]
\* in _app.py
Cap(v) == IF v = "app" THEN MaxButtons ELSE MaxButtonsSingle

\* the choices a caller may pass: the two of the greeting and the third the
\* source keeps in a comment
Choices ==
    { [id |-> "book_now", title |-> "Book Now"],
      [id |-> "book_later", title |-> "Book Later"],
      [id |-> "cancel_booking", title |-> "Cancel Booking"] }

\* the lists of choices of length up to MaxChoices
ChoiceLists == UNION { [1..n -> Choices] : n \in 0..MaxChoices }

(***************************************************************************)
(* The webhook handler: whatsapp_reply.                                    *)
(***************************************************************************)
\* the buttons list of the greeting branch
GreetingButtons ==
    << [id |-> "book_now", title |-> "Book Now"],
       [id |-> "book_later", title |-> "Book Later"] >>

\* the chain with the "book_later" test moved ahead of the "book" test
ClassifyLaterFirst(incoming_msg) ==
    IF Contains(incoming_msg, "hi") \/ Contains(incoming_msg, "hello")
    THEN "greeting"
    ELSE IF Contains(incoming_msg, "book_later")
    THEN "later"
    ELSE IF Contains(incoming_msg, "book_now") \/ Contains(incoming_msg, "book")
    THEN "book"
    ELSE IF Contains(incoming_msg, "cancel_booking")
    THEN "cancel"
    ELSE IF Contains(incoming_msg, "haircut") \/ Contains(incoming_msg, "consultation")
    THEN "service"
    ELSE IF Len(incoming_msg) = DateEntryLen
    THEN "date"
    ELSE "fallback"

\* the if / elif chain over incoming_msg: the branch that runs
Classify(incoming_msg) ==
    IF Contains(incoming_msg, "hi") \/ Contains(incoming_msg, "hello")
    THEN "greeting"
    ELSE IF Contains(incoming_msg, "book_now") \/ Contains(incoming_msg, "book")
    THEN "book"
    ELSE IF Contains(incoming_msg, "book_later")
    THEN "later"
    ELSE IF Contains(incoming_msg, "cancel_booking")
    THEN "cancel"
    ELSE IF Contains(incoming_msg, "haircut") \/ Contains(incoming_msg, "consultation")
    THEN "service"
    ELSE IF Len(incoming_msg) = DateEntryLen
    THEN "date"
    ELSE "fallback"

\* the comparison turned round
DateInPastReversed(appointment_date, t) == appointment_date > t

\* if appointment_date < datetime.now(): raise ValueError
DateInPast(appointment_date, t) == appointment_date < t

\* service = '' at the start of every request
InitialService == ""

\* find_one({"phone_number": sender_number, "appointment_date": {"$gte": now}})
FutureAppointments(sender_number, t) ==
    { a \in appointments : a.phone_number = sender_number /\ a.appointment_date >= t }

NoDoc == [id |-> 0]

\* the document find_one may return in the cancellation branch
CancelCandidates(sender_number, branch) ==
    IF branch = "cancel" /\ FutureAppointments(sender_number, now) # {}
    THEN FutureAppointments(sender_number, now)
    ELSE {NoDoc}

\* the document with reminder_sent already set
NewAppointmentReminded(sender_number, service, appointment_date) ==
    [ id |-> next_id,
      customer_name |-> "Customer",
      phone_number |-> sender_number,
      service |-> service,
      appointment_date |-> appointment_date,
      reminder_sent |-> TRUE,
      follow_up_sent |-> FALSE ]

NewAppointment(sender_number, service, appointment_date) ==
    [ id |-> next_id,
      customer_name |-> "Customer",
      phone_number |-> sender_number,
      service |-> service,
      appointment_date |-> appointment_date,
      reminder_sent |-> FALSE,
      follow_up_sent |-> FALSE ]

\* the reply of the inner except ValueError given by the outer except too
ErrorReplyInvalidDate == TextReply("invalid_date")

\* msg.body("An error occurred while processing your request. ...")
ErrorReply == TextReply("error")

\* what the handler computes from a body alone, evaluated once per body
BodyFacts ==
    [ body \in Bodies |->
        LET incoming_msg == Lower(body)
        IN  [ incoming_msg |-> incoming_msg,
              branch |-> Classify(incoming_msg),
              title |-> Title(incoming_msg),
              parse_fails |-> ParseFails(incoming_msg),
              date |-> IF ParseFails(incoming_msg) THEN 0 ELSE ParseDate(incoming_msg) ] ]

\* what the environment does to one request:
\*   "signature"  validator.validate answers False
\*   "send"       twilio_client.messages.create raises
\*   "store1"     the first store call of the request raises
\*   "store2"     the second store call of the request raises
Faults == {"none", "signature", "send", "store1", "store2"}

\* the fault meets a call the request makes: any other fault is "none".
\* The date branch calls the provider (_app.py) and the store only for a
\* date that parses and is not in the past.
FaultApplies(fault, body) ==
    LET branch == BodyFacts[body].branch
        accepted == /\ branch = "date"
                    /\ ~BodyFacts[body].parse_fails
                    /\ ~DateInPast(BodyFacts[body].date, now)
    IN  \/ fault \in {"none", "signature"}
        \/ fault = "send" /\ (branch = "greeting" \/ (accepted /\ variant = "_app"))
        \/ fault = "store1" /\ (branch = "cancel" \/ accepted)
        \/ fault = "store2" /\ branch = "cancel"

\* the validator's answer not looked at
validate_twilio_request_unchecked(fault) == TRUE

\* validator.validate(url, post_data, signature)
validate_twilio_request(fault) == fault # "signature"

\* One request: the collection, the next _id and the outcome after it.
\* found is the document find_one returns (NoDoc: none).
whatsapp_reply(sender_number, body, fault, found) ==
    LET incoming_msg == BodyFacts[body].incoming_msg
        branch == BodyFacts[body].branch
        sigOk == validate_twilio_request(fault)
        sendOk == fault # "send"
        storeFailAt == IF fault = "store1" THEN 1 ELSE IF fault = "store2" THEN 2 ELSE 0
        req == [ NoRequest EXCEPT
                   !.from = sender_number, !.body = body, !.status = 200,
                   !.fault = fault, !.branch = branch ]
        \* the request's local variable service: assigned in the service branch only
        service == IF branch = "service" THEN BodyFacts[body].title ELSE InitialService
        same(l) == [appointments |-> appointments, next_id |-> next_id, last |-> l]
    IN
    IF ~sigOk
    THEN same([NoRequest EXCEPT !.status = 403, !.fault = fault, !.branch = "rejected"])
    ELSE IF branch = "greeting"
    THEN LET d == send_interactive_message(variant, sender_number, GreetingButtons, sendOk)
         IN  same([req EXCEPT
                     !.calls = << [to |-> sender_number, buttons |-> GreetingButtons] >>,
                     !.outbox = d.sent,
                     !.result = d.result])
    ELSE IF branch = "book"
    THEN same([req EXCEPT !.reply = TextReply("ask_service")])
    ELSE IF branch = "later"
    THEN same([req EXCEPT !.reply = TextReply("later_ack")])
    ELSE IF branch = "cancel"
    THEN IF storeFailAt = 1
         THEN same([req EXCEPT !.reads = 1, !.reply = ErrorReply])
         ELSE IF found = NoDoc
         THEN same([req EXCEPT !.reads = 1, !.reply = TextReply("no_upcoming")])
         ELSE IF storeFailAt = 2
         THEN same([req EXCEPT !.reads = 1, !.writes = 1, !.reply = ErrorReply])
         ELSE [ appointments |-> { a \in appointments : a.id # found.id },
                next_id |-> next_id,
                last |-> [req EXCEPT
                            !.reads = 1, !.writes = 1,
                            !.reply = [kind |-> "cancelled",
                                       service |-> found.service,
                                       date |-> found.appointment_date]] ]
    ELSE IF branch = "service"
    THEN same([req EXCEPT !.reply = [kind |-> "ask_date",
                                     service |-> service,
                                     date |-> 0]])
    ELSE IF branch = "date"
    THEN IF BodyFacts[body].parse_fails \/ DateInPast(BodyFacts[body].date, now)
         THEN same([req EXCEPT !.reply = TextReply("invalid_date")])
         ELSE LET appointment_date == BodyFacts[body].date
                  extra == IF variant = "_app"
                           THEN << TextMessage(HardcodedRecipient, "lavdya") >>
                           ELSE << >>
              IN  IF variant = "_app" /\ ~sendOk
                  THEN same([req EXCEPT !.reply = ErrorReply])
                  ELSE IF storeFailAt = 1
                  THEN same([req EXCEPT !.outbox = extra, !.writes = 1,
                                        !.reply = ErrorReply])
                  ELSE [ appointments |-> appointments \cup
                             { NewAppointment(sender_number, service, appointment_date) },
                         next_id |-> next_id + 1,
                         last |-> [req EXCEPT
                                     !.outbox = extra, !.writes = 1,
                                     !.reply = [kind |-> "scheduled",
                                                service |-> service,
                                                date |-> appointment_date]] ]
    ELSE same([req EXCEPT !.reply = TextReply("fallback")])

(***************************************************************************)
(* The sweeps: send_reminder and send_follow_up.  A sweep queries the      *)
(* collection once (Start) and then visits the documents of its cursor one *)
(* by one (Step): send, then update_one on the document's _id.             *)
(***************************************************************************)
\* the filter without its reminder_sent condition
ReminderDueIgnoringFlag(a, t) ==
    /\ a.appointment_date >= t + Hours(ReminderFromHours)
    /\ a.appointment_date <= t + Hours(ReminderToHours)

\* the filter without its "$lte" bound
ReminderDueNoUpperBound(a, t) ==
    /\ a.appointment_date >= t + Hours(ReminderFromHours)
    /\ a.reminder_sent = FALSE

\* the filter of send_reminder's find
ReminderDue(a, t) ==
    /\ a.appointment_date >= t + Hours(ReminderFromHours)
    /\ a.appointment_date <= t + Hours(ReminderToHours)
    /\ a.reminder_sent = FALSE

\* the filter without its "$lte" bound: appointments still to come match
FollowUpDueNoUpperBound(a, t) ==
    /\ a.appointment_date >= t - Hours(FollowUpHours)
    /\ a.follow_up_sent = FALSE

\* the filter of send_follow_up's find
FollowUpDue(a, t) ==
    /\ a.appointment_date >= t - Hours(FollowUpHours)
    /\ a.appointment_date <= t
    /\ a.follow_up_sent = FALSE

\* the documents of a find, in insertion order
RECURSIVE Cursor(_)
Cursor(docs) ==
    IF docs = {} THEN << >>
    ELSE LET first == CHOOSE a \in docs : \A b \in docs : a.id <= b.id
         IN  << first >> \o Cursor(docs \ {first})

\* the update filtered on the document's phone_number, not on its _id
SetReminderSentByPhone(id) ==
    { IF \E d \in appointments : d.id = id /\ d.phone_number = a.phone_number
      THEN [a EXCEPT !.reminder_sent = TRUE]
      ELSE a : a \in appointments }

\* update_one({"_id": id}, {"$set": {"reminder_sent": True}})
SetReminderSent(id) ==
    { IF a.id = id THEN [a EXCEPT !.reminder_sent = TRUE] ELSE a : a \in appointments }

\* the update that writes both flags: follow_up_sent True, reminder_sent False
SetFollowUpSentReplacing(id) ==
    { IF a.id = id
      THEN [a EXCEPT !.follow_up_sent = TRUE, !.reminder_sent = FALSE]
      ELSE a : a \in appointments }

\* update_one({"_id": id}, {"$set": {"follow_up_sent": True}})
SetFollowUpSent(id) ==
    { IF a.id = id THEN [a EXCEPT !.follow_up_sent = TRUE] ELSE a : a \in appointments }

(***************************************************************************)
(* Actions.                                                                *)
(***************************************************************************)
Init ==
    /\ variant \in {"app", "_app"}
    /\ now = StartTime
    /\ appointments = {}
    /\ next_id = 1
    /\ last = NoRequest
    /\ reminder_cursor = << >>
    /\ follow_up_cursor = << >>
    /\ reminders = [i \in Ids |-> 0]
    /\ follow_ups = [i \in Ids |-> 0]
    /\ reminder_lost = {}
    /\ follow_up_lost = {}
    /\ reminder_skipped = {}

\* datetime.now() advances by one hour
Tick ==
    /\ now < StartTime + Hours(MaxTicks)
    /\ now' = now + Hours(1)
    /\ last' = NoRequest
    /\ UNCHANGED << variant, appointments, next_id, reminder_cursor, follow_up_cursor,
                    reminders, follow_ups, reminder_lost, follow_up_lost,
                    reminder_skipped >>

\* datetime.now() advances by a day, once the hours of Tick have passed: the
\* time it takes an appointment to pass from the reminder window to the
\* follow-up window and out of it
TickDay ==
    /\ now >= StartTime + Hours(MaxTicks)
    /\ now < StartTime + Hours(MaxTicks) + Hours(24 * MaxDays)
    /\ now' = now + Hours(24)
    /\ last' = NoRequest
    /\ UNCHANGED << variant, appointments, next_id, reminder_cursor, follow_up_cursor,
                    reminders, follow_ups, reminder_lost, follow_up_lost,
                    reminder_skipped >>

\* POST /whatsapp from one of senders.  observe: the request and its outcome
\* are recorded in last
RequestFrom(senders, observe) ==
    \E sender_number \in senders, body \in Bodies, fault \in Faults :
      \E found \in CancelCandidates(sender_number, BodyFacts[body].branch) :
        LET r == whatsapp_reply(sender_number, body, fault, found)
        IN  /\ FaultApplies(fault, body)
            /\ r.next_id <= MaxAppointments + 1
            /\ appointments' = r.appointments
            /\ next_id' = r.next_id
            /\ last' = IF observe THEN r.last ELSE NoRequest
            /\ UNCHANGED << variant, now, reminder_cursor, follow_up_cursor,
                            reminders, follow_ups, reminder_lost, follow_up_lost,
                    reminder_skipped >>

\* POST /whatsapp
Request(observe) == RequestFrom(Senders, observe)

Webhook == Request(TRUE)

\* the same requests, with nothing recorded about them
WebhookUnobserved == Request(FALSE)

\* the requests of a single sender, with nothing recorded about them: the
\* sweeps use phone_number as the address of their message and nowhere else
WebhookOneSender == RequestFrom({"whatsapp:+1001"}, FALSE)

\* send_interactive_message(to, message, buttons) called on its own, once,
\* with any list of choices; last records the call, the messages accepted
\* and the value returned
Dispatch ==
    \E to \in Senders, buttons \in ChoiceLists, ok \in BOOLEAN :
      LET d == send_interactive_message(variant, to, buttons, ok)
      IN  /\ last = NoRequest
          /\ last' = [ NoRequest EXCEPT
                         !.from = to,
                         !.fault = IF ok THEN "none" ELSE "send",
                         !.branch = "dispatch",
                         !.calls = << [to |-> to, buttons |-> buttons] >>,
                         !.outbox = d.sent,
                         !.result = d.result ]
          /\ UNCHANGED << variant, now, appointments, next_id, reminder_cursor,
                          follow_up_cursor, reminders, follow_ups, reminder_lost,
                          follow_up_lost, reminder_skipped >>

\* send_reminder up to its for loop; the scheduler runs one instance at a time
ReminderStart ==
    /\ reminder_cursor = << >>
    /\ reminder_cursor' = Cursor({ a \in appointments : ReminderDue(a, now) })
    /\ reminder_skipped' = reminder_skipped \cup
           { a.id : a \in { b \in appointments :
                              /\ b.reminder_sent
                              /\ ReminderDue([b EXCEPT !.reminder_sent = FALSE], now) } }
    /\ last' = NoRequest
    /\ UNCHANGED << variant, now, appointments, next_id, follow_up_cursor,
                    reminders, follow_ups, reminder_lost, follow_up_lost >>

\* the answers update_one may give for document id: it raises only within
\* the model's bound on update failures
UpdateAnswers(id, lost) ==
    IF id \notin lost
       /\ Cardinality(reminder_lost) + Cardinality(follow_up_lost) < MaxUpdateFailures
    THEN BOOLEAN
    ELSE {TRUE}

\* the iteration with update_one ahead of messages.create: the flag is set
\* whether or not the provider accepts the reminder
ReminderStepUpdateFirst ==
    /\ reminder_cursor # << >>
    /\ \E sendOk \in BOOLEAN,
          updateOk \in UpdateAnswers(Head(reminder_cursor).id, reminder_lost) :
         LET appointment == Head(reminder_cursor)
         IN  /\ reminders' = IF sendOk /\ updateOk
                             THEN [reminders EXCEPT ![appointment.id] = @ + 1]
                             ELSE reminders
             /\ appointments' = IF updateOk
                                THEN SetReminderSent(appointment.id)
                                ELSE appointments
             /\ reminder_lost' = reminder_lost
    /\ reminder_cursor' = Tail(reminder_cursor)
    /\ last' = NoRequest
    /\ UNCHANGED << variant, now, next_id, follow_up_cursor, follow_ups,
                    follow_up_lost, reminder_skipped >>

\* one iteration of send_reminder's for loop
ReminderStep ==
    /\ reminder_cursor # << >>
    /\ \E sendOk \in BOOLEAN,
          updateOk \in UpdateAnswers(Head(reminder_cursor).id, reminder_lost) :
         LET appointment == Head(reminder_cursor)
         IN  /\ reminders' = IF sendOk
                             THEN [reminders EXCEPT ![appointment.id] = @ + 1]
                             ELSE reminders
             /\ appointments' = IF sendOk /\ updateOk
                                THEN SetReminderSent(appointment.id)
                                ELSE appointments
             /\ reminder_lost' = IF sendOk /\ ~updateOk
                                 THEN reminder_lost \cup {appointment.id}
                                 ELSE reminder_lost
    /\ reminder_cursor' = Tail(reminder_cursor)
    /\ last' = NoRequest
    /\ UNCHANGED << variant, now, next_id, follow_up_cursor, follow_ups,
                    follow_up_lost, reminder_skipped >>

\* send_follow_up up to its for loop
FollowUpStart ==
    /\ follow_up_cursor = << >>
    /\ follow_up_cursor' = Cursor({ a \in appointments : FollowUpDue(a, now) })
    /\ last' = NoRequest
    /\ UNCHANGED << variant, now, appointments, next_id, reminder_cursor,
                    reminders, follow_ups, reminder_lost, follow_up_lost,
                    reminder_skipped >>

\* one iteration of send_follow_up's for loop
FollowUpStep ==
    /\ follow_up_cursor # << >>
    /\ \E sendOk \in BOOLEAN,
          updateOk \in UpdateAnswers(Head(follow_up_cursor).id, follow_up_lost) :
         LET appointment == Head(follow_up_cursor)
         IN  /\ follow_ups' = IF sendOk
                              THEN [follow_ups EXCEPT ![appointment.id] = @ + 1]
                              ELSE follow_ups
             /\ appointments' = IF sendOk /\ updateOk
                                THEN SetFollowUpSent(appointment.id)
                                ELSE appointments
             /\ follow_up_lost' = IF sendOk /\ ~updateOk
                                  THEN follow_up_lost \cup {appointment.id}
                                  ELSE follow_up_lost
    /\ follow_up_cursor' = Tail(follow_up_cursor)
    /\ last' = NoRequest
    /\ UNCHANGED << variant, now, next_id, reminder_cursor, reminders,
                    reminder_lost, reminder_skipped >>

Next ==
    \/ Tick
    \/ Webhook
    \/ ReminderStart
    \/ ReminderStep
    \/ FollowUpStart
    \/ FollowUpStep

\* the whole program
Spec == Init /\ [][Next]_vars

\* the webhook alone: the scheduler's jobs are not started
NextWebhook ==
    \/ Tick
    \/ Webhook

SpecWebhook == Init /\ [][NextWebhook]_vars

\* the whole program, without the record of the requests: what the sweeps
\* see of a request is only what it does to the collection
NextSweeps ==
    \/ Tick
    \/ WebhookUnobserved
    \/ ReminderStart
    \/ ReminderStep
    \/ FollowUpStart
    \/ FollowUpStep

SpecSweeps == Init /\ [][NextSweeps]_vars

\* the requests of one sender and the sweeps, over days: an appointment
\* lives through both windows
NextDays ==
    \/ Tick
    \/ TickDay
    \/ WebhookOneSender
    \/ ReminderStart
    \/ ReminderStep
    \/ FollowUpStart
    \/ FollowUpStep

SpecDays == Init /\ [][NextDays]_vars

\* scheduler.add_job(send_reminder, 'interval', minutes=1) with a provider
\* that accepts in the end: by the time the clock shows the next hour a run
\* of send_reminder has ended that reminded and flagged every record its
\* query matches at the present time
ReminderRunsUpToDate ==
    /\ reminder_cursor = << >>
    /\ \A a \in appointments : ~ReminderDue(a, now)

\* an hour passes, the reminder job having run in it
TickAfterReminderRun == ReminderRunsUpToDate /\ Tick

\* a day passes, the reminder job having run before it
TickDayAfterReminderRun == ReminderRunsUpToDate /\ TickDay

\* the requests and the reminder job running every minute
NextReminderRuns ==
    \/ WebhookUnobserved
    \/ ReminderStart
    \/ ReminderStep
    \/ TickAfterReminderRun
    \/ TickDayAfterReminderRun

SpecReminderRuns ==
    /\ Init
    /\ [][NextReminderRuns]_vars
    /\ WF_vars(ReminderStart)
    /\ WF_vars(ReminderStep)
    /\ WF_vars(TickAfterReminderRun)
    /\ WF_vars(TickDayAfterReminderRun)

\* the dispatcher alone, called with every list of choices
NextDispatch == Dispatch

SpecDispatch == Init /\ [][NextDispatch]_vars

(***************************************************************************)
(* Vocabulary of the properties.  The substring tests are evaluated once   *)
(* per body, straight from Contains, not through Classify.                 *)
(***************************************************************************)
Keywords ==
    { "hi", "hello", "book_now", "book", "book_later", "cancel_booking",
      "haircut", "consultation" }

Mentions ==
    [ body \in Bodies |-> { k \in Keywords : Contains(Lower(body), k) } ]

\* a request got past the signature check
Handled(l) == l.status = 200

\* a request got past the signature check and no call it made failed
HandledCleanly(l) == l.status = 200 /\ l.fault = "none"

\* the messages a request caused to be sent: the provider calls that were
\* accepted, and the reply returned to the webhook when it has a body
Responses(l) == Len(l.outbox) + (IF l.reply.kind = "none" THEN 0 ELSE 1)

\* the lower-cased body is a date and time that strptime accepts
ValidDateEntry(body) ==
    Len(body) = DateEntryLen /\ ~BodyFacts[body].parse_fails

(***************************************************************************)
(* C1.  A message containing "cancel_booking": when the sender has an      *)
(* appointment with appointment_date >= now, exactly one of them is        *)
(* deleted, nothing else in the collection changes and the reply confirms  *)
(* the cancellation with that document's service and date; when the sender *)
(* has none, the collection is unchanged and the reply is "You don't have  *)
(* any upcoming appointments to cancel."  (Stated for requests in which no *)
(* store call failed.)  The code violates it: "cancel_booking" contains    *)
(* "book", so the booking branch answers and the cancellation branch never *)
(* runs.                                                                   *)
(***************************************************************************)
C1_CancelDeletesOneFutureAppointment ==
    [][ (HandledCleanly(last') /\ "cancel_booking" \in Mentions[last'.body]) =>
          LET future == { a \in appointments :
                            /\ a.phone_number = last'.from
                            /\ a.appointment_date >= now }
          IN  IF future # {}
              THEN \E a \in future :
                     /\ appointments' = appointments \ {a}
                     /\ last'.reply = [kind |-> "cancelled", service |-> a.service,
                                       date |-> a.appointment_date]
              ELSE /\ appointments' = appointments
                   /\ last'.reply.kind = "no_upcoming" ]_vars

(***************************************************************************)
(* C2.  Reminder sweeps run one after another, each flag update committed  *)
(* before the next query: an appointment whose reminder_sent update never  *)
(* failed has had at most one reminder accepted by the provider.           *)
(***************************************************************************)
C2_AtMostOneReminder ==
    \A id \in Ids : id \notin reminder_lost => reminders[id] <= 1

\* a later sweep ran while the appointment was still inside the window and
\* left it out because its flag was set
C2_Witness ==
    \E id \in reminder_skipped : id \notin reminder_lost /\ reminders[id] = 1

(***************************************************************************)
(* C3.  A 16-character message that parses as YYYY-MM-DD HH:MM to a time   *)
(* after now, in a request none of whose calls failed: exactly one         *)
(* document is inserted, with phone_number the sender, appointment_date    *)
(* the parsed time, reminder_sent and follow_up_sent false, and the reply  *)
(* is the confirmation naming that date.  It holds whatever the sender     *)
(* sent before, so also after a service-selection message.                 *)
(***************************************************************************)
C3_ValidDateCreatesAppointment ==
    [][ ( /\ HandledCleanly(last')
          /\ ValidDateEntry(last'.body)
          /\ BodyFacts[last'.body].date > now ) =>
          \E a \in appointments' \ appointments :
             /\ appointments' = appointments \cup {a}
             /\ a.phone_number = last'.from
             /\ a.appointment_date = BodyFacts[last'.body].date
             /\ a.reminder_sent = FALSE
             /\ a.follow_up_sent = FALSE
             /\ last'.reply.kind = "scheduled"
             /\ last'.reply.date = a.appointment_date ]_vars

C3_Witness ==
    /\ HandledCleanly(last)
    /\ ValidDateEntry(last.body)
    /\ BodyFacts[last.body].date > now
    /\ last.reply.kind = "scheduled"
    /\ \E a \in appointments :
          /\ a.id = next_id - 1
          /\ a.phone_number = last.from
          /\ a.appointment_date = last.reply.date

(***************************************************************************)
(* C4.  A service-selection message answered with the date prompt, then a  *)
(* valid future date from the same sender in the next request: the         *)
(* appointment created has service equal to the title-cased text of the    *)
(* first message.  The code violates it: service is reset to '' at the     *)
(* start of every request.                                                 *)
(***************************************************************************)
C4_ServiceCarriedToAppointment ==
    [][ ( /\ HandledCleanly(last)
          /\ Mentions[last.body] \cap {"haircut", "consultation"} # {}
          /\ last.reply.kind = "ask_date"
          /\ HandledCleanly(last')
          /\ last'.from = last.from
          /\ last'.reply.kind = "scheduled" ) =>
          \E a \in appointments' \ appointments :
             a.service = Title(Lower(last.body)) ]_vars

(***************************************************************************)
(* C5.  A 16-character message that reaches the date branch and either     *)
(* does not parse as YYYY-MM-DD HH:MM or parses to a time before now:      *)
(* the collection is unchanged and the reply is the "Invalid date format   *)
(* or date is in the past" message.                                        *)
(***************************************************************************)
C5_InvalidDateCreatesNothing ==
    [][ ( /\ Handled(last')
          /\ Len(last'.body) = DateEntryLen
          /\ Mentions[last'.body] = {}
          /\ ( \/ BodyFacts[last'.body].parse_fails
               \/ BodyFacts[last'.body].date < now ) ) =>
          /\ appointments' = appointments
          /\ last'.reply.kind = "invalid_date" ]_vars

\* a date that parses and is in the past: "2098-12-31 10:00" two hours after
\* the start
C5_Witness ==
    /\ Handled(last)
    /\ Len(last.body) = DateEntryLen
    /\ Mentions[last.body] = {}
    /\ ~BodyFacts[last.body].parse_fails
    /\ BodyFacts[last.body].date < now
    /\ last.reply.kind = "invalid_date"

(***************************************************************************)
(* C6.  Every document whatsapp_reply inserts has appointment_date         *)
(* strictly after now at the moment of insertion; a date equal to now      *)
(* creates nothing.  The code violates it: it rejects appointment_date <   *)
(* now only, so a date equal to now is inserted.                           *)
(***************************************************************************)
C6_InsertedDateStrictlyFuture ==
    [][ \A a \in appointments' \ appointments : a.appointment_date > now ]_vars

(***************************************************************************)
(* C7.  A message containing "hi" or "hello" after lower-casing: the       *)
(* dispatcher is called once, for the sender, with exactly the choices     *)
(* (book_now, "Book Now") and (book_later, "Book Later"); the message      *)
(* handed to the provider carries both; the store is neither read nor      *)
(* written.                                                                *)
(***************************************************************************)
C7_GreetingOffersBothChoices ==
    ( Handled(last) /\ Mentions[last.body] \cap {"hi", "hello"} # {} ) =>
        LET choices == << [id |-> "book_now", title |-> "Book Now"],
                          [id |-> "book_later", title |-> "Book Later"] >>
        IN  /\ last.calls = << [to |-> last.from, buttons |-> choices] >>
            /\ last.fault = "none" =>
                 last.outbox = << [to |-> last.from, kind |-> "buttons",
                                   buttons |-> choices] >>
            /\ last.reads = 0
            /\ last.writes = 0

\* "Hello there": upper case, surrounding text
C7_Witness ==
    /\ HandledCleanly(last)
    /\ last.body = "Hello there"
    /\ Len(last.outbox) = 1
    /\ Len(last.outbox[1].buttons) = 2

(***************************************************************************)
(* C8.  A message containing "book_later" and neither "hi" nor "hello" is  *)
(* answered with the deferred-booking acknowledgement, without store       *)
(* access.  The code violates it: "book_later" contains "book", so the     *)
(* booking branch answers with the service prompt.                         *)
(***************************************************************************)
C8_BookLaterAcknowledged ==
    ( /\ Handled(last)
      /\ "book_later" \in Mentions[last.body]
      /\ Mentions[last.body] \cap {"hi", "hello"} = {} ) =>
        /\ last.reply.kind = "later_ack"
        /\ last.reads = 0
        /\ last.writes = 0

(***************************************************************************)
(* C9.  The reply is chosen by the first rule, in the order greeting,      *)
(* booking intent, deferred booking, cancellation, service selection,      *)
(* 16-character date entry, fallback, whose test matches the lower-cased   *)
(* message.                                                                *)
(***************************************************************************)
RuleOrder ==
    << "greeting", "book", "later", "cancel", "service", "date", "fallback" >>

RuleMatches(rule, body) ==
    CASE rule = "greeting" -> Mentions[body] \cap {"hi", "hello"} # {}
      [] rule = "book"     -> Mentions[body] \cap {"book_now", "book"} # {}
      [] rule = "later"    -> "book_later" \in Mentions[body]
      [] rule = "cancel"   -> "cancel_booking" \in Mentions[body]
      [] rule = "service"  -> Mentions[body] \cap {"haircut", "consultation"} # {}
      [] rule = "date"     -> Len(body) = DateEntryLen
      [] OTHER             -> TRUE

\* the rule a request's outcome shows to have run
RuleObserved(l) ==
    CASE l.calls # << >>                                -> "greeting"
      [] l.reply.kind = "ask_service"                   -> "book"
      [] l.reply.kind = "later_ack"                     -> "later"
      [] l.reply.kind \in {"cancelled", "no_upcoming"}  -> "cancel"
      [] l.reply.kind = "ask_date"                      -> "service"
      [] l.reply.kind \in {"scheduled", "invalid_date"} -> "date"
      [] l.reply.kind = "fallback"                      -> "fallback"
      [] OTHER                                          -> "none"

C9_FirstMatchingRuleWins ==
    HandledCleanly(last) =>
        \E k \in 1..Len(RuleOrder) :
           /\ RuleObserved(last) = RuleOrder[k]
           /\ RuleMatches(RuleOrder[k], last.body)
           /\ \A j \in 1..(k - 1) : ~RuleMatches(RuleOrder[j], last.body)

\* the claim's second example: 16 characters containing "book"
C9_Witness ==
    /\ HandledCleanly(last)
    /\ last.body = "book 2099-01-01 "
    /\ last.reply.kind = "ask_service"
    /\ appointments = {}

(***************************************************************************)
(* C10.  One request in which no call failed produces exactly one outbound *)
(* message, to the sender, and makes at most one store mutation.  The code *)
(* of _app.py violates it: its date branch also sends a message to a       *)
(* hardcoded number.                                                       *)
(***************************************************************************)
C10_OneResponseOneMutation ==
    HandledCleanly(last) =>
        /\ Responses(last) = 1
        /\ \A i \in 1..Len(last.outbox) : last.outbox[i].to = last.from
        /\ last.writes <= 1

(***************************************************************************)
(* C11, as claimed.  A request in which a call other than the date parse   *)
(* fails (a store lookup, delete or insert, or an outbound send) is        *)
(* answered, with status 200, by the generic "An error occurred while      *)
(* processing your request. Please try again later." reply.                *)
(***************************************************************************)
C11_FailureGivesGenericReply ==
    ( last.status # 0 /\ last.fault \in {"send", "store1", "store2"} ) =>
        /\ last.status = 200
        /\ last.reply.kind = "error"

(***************************************************************************)
(* C11, amended.  A request in which a store call, or a send the handler   *)
(* makes itself, raises is answered with status 200 by the generic reply.  *)
(* A send that fails inside send_interactive_message is caught there: the  *)
(* handler goes on and returns, with status 200, the reply of its branch,  *)
(* which for the greeting has no text.                                     *)
(***************************************************************************)
C11_HandlerFailureGivesGenericReply ==
    ( last.status # 0 /\ last.fault \in {"send", "store1", "store2"} ) =>
        /\ last.status = 200
        /\ IF last.calls # << >>
           THEN last.reply.kind = "none" /\ last.outbox = << >>
           ELSE last.reply.kind = "error"

\* insert_one raised: nothing was stored and the reply is the generic one
C11_Witness ==
    /\ last.fault = "store1"
    /\ last.writes = 1
    /\ last.reply.kind = "error"
    /\ last.status = 200

(***************************************************************************)
(* C12.  send_interactive_message returns to its caller whatever the       *)
(* provider does: a delivery handle when the provider accepted the         *)
(* message, the failure sentinel None when the provider call failed.  The  *)
(* code of _app.py violates it: send_single_interactive_message swallows   *)
(* the failure and send_interactive_message returns True all the same.     *)
(***************************************************************************)
C12_ResultTellsDelivery ==
    last.calls # << >> =>
        IF last.fault = "send"
        THEN last.result = "None"
        ELSE last.result \in {"sid", "True"}

(***************************************************************************)
(* C13.  Whatever list of choices send_interactive_message is given, when  *)
(* the provider accepts: no message carries more choices than the cap, and *)
(* when more than the cap are supplied the choices delivered, in order,    *)
(* are the first cap of them or all of them.  The code of _app.py violates *)
(* it: it cuts the list into chunks of five and then cuts every chunk to   *)
(* two, so of six choices the first, second and sixth are delivered.       *)
(***************************************************************************)
RECURSIVE Delivered(_)
Delivered(outbox) ==
    IF Len(outbox) = 0 THEN << >>
    ELSE Head(outbox).buttons \o Delivered(Tail(outbox))

C13_TruncateOrChunk ==
    ( last.calls # << >> /\ last.fault = "none" ) =>
        LET supplied == last.calls[1].buttons
        IN  /\ \A i \in 1..Len(last.outbox) :
                  Len(last.outbox[i].buttons) <= Cap(variant)
            /\ Len(supplied) > Cap(variant) =>
                  \/ Delivered(last.outbox) = SubSeq(supplied, 1, Cap(variant))
                  \/ Delivered(last.outbox) = supplied

(***************************************************************************)
(* C14.  A request whose signature validation fails is rejected with       *)
(* status 403 before anything else is done: no store read, no store write, *)
(* no call of the dispatcher, no message to the provider, no reply, and    *)
(* the collection after the request is the collection before it.           *)
(***************************************************************************)
C14_RejectedBeforeProcessing ==
    [][ last'.fault = "signature" =>
          /\ last'.status = 403
          /\ last'.reads = 0
          /\ last'.writes = 0
          /\ last'.calls = << >>
          /\ last'.outbox = << >>
          /\ last'.reply = NoReply
          /\ appointments' = appointments
          /\ next_id' = next_id ]_vars

\* a rejected request while the collection holds an appointment
C14_Witness ==
    /\ last.fault = "signature"
    /\ last.status = 403
    /\ appointments # {}

(***************************************************************************)
(* Vocabulary of the sweep properties: what a step did, read off the       *)
(* collection and the provider's log before and after it.                  *)
(***************************************************************************)
\* the provider accepted a reminder for document id in this step
ReminderDispatched(id) == reminders'[id] = reminders[id] + 1

\* the provider accepted a follow-up for document id in this step
FollowUpDispatched(id) == follow_ups'[id] = follow_ups[id] + 1

\* update_one raised for document id in this step, after its reminder was
\* accepted
ReminderUpdateFailed(id) == id \in reminder_lost' /\ id \notin reminder_lost

\* this step turned reminder_sent of document id from false to true
ReminderFlagSet(id) ==
    \E a \in appointments, b \in appointments' :
       a.id = id /\ b.id = id /\ ~a.reminder_sent /\ b.reminder_sent

\* this step turned follow_up_sent of document id from false to true
FollowUpFlagSet(id) ==
    \E a \in appointments, b \in appointments' :
       a.id = id /\ b.id = id /\ ~a.follow_up_sent /\ b.follow_up_sent

\* A run of send_reminder visits only what its query returned, and the
\* provider is handed a reminder only for the record being visited: the
\* query returns stored records dated within [now + 23 h, now + 25 h] with
\* reminder_sent false; the run then goes through them one by one.
ReminderRunDispatchesOnlyQueried ==
    /\ reminder_cursor = << >> =>
          \A i \in 1..Len(reminder_cursor') :
             LET a == reminder_cursor'[i]
             IN  /\ a \in appointments
                 /\ a.appointment_date >= now + Hours(23)
                 /\ a.appointment_date <= now + Hours(25)
                 /\ a.reminder_sent = FALSE
    /\ reminder_cursor # << >> =>
          reminder_cursor' \in {reminder_cursor, Tail(reminder_cursor)}
    /\ \A id \in Ids :
          reminders'[id] # reminders[id] =>
             /\ reminder_cursor # << >>
             /\ Head(reminder_cursor).id = id
             /\ reminder_cursor' = Tail(reminder_cursor)
             /\ ReminderDispatched(id)

(***************************************************************************)
(* C15, as claimed.  In a run of send_reminder a reminder is dispatched    *)
(* only for records that were dated within [now + 23 h, now + 25 h] with   *)
(* reminder_sent false when queried, and reminder_sent is set for exactly  *)
(* the records whose dispatch succeeded in the run.                        *)
(***************************************************************************)
C15_FlagSetExactlyWhenDispatched ==
    [][ /\ ReminderRunDispatchesOnlyQueried
        /\ \A id \in Ids : ReminderFlagSet(id) <=> ReminderDispatched(id) ]_vars

(***************************************************************************)
(* C15, amended.  As above, and reminder_sent is set for exactly the       *)
(* records whose dispatch succeeded in the run and whose update_one did    *)
(* not fail: a record whose update_one raised after the send keeps         *)
(* reminder_sent false.                                                    *)
(***************************************************************************)
C15_FlagSetWhenDispatchedAndUpdated ==
    [][ /\ ReminderRunDispatchesOnlyQueried
        /\ \A id \in Ids :
              /\ ReminderFlagSet(id) => ReminderDispatched(id)
              /\ (ReminderDispatched(id) /\ ~ReminderUpdateFailed(id))
                    => ReminderFlagSet(id)
              /\ (ReminderDispatched(id) /\ ReminderUpdateFailed(id))
                    => ~ReminderFlagSet(id) ]_vars

\* a run has ended: one record was reminded and flagged, an earlier-dated
\* one, never inside the window, was left alone
C15_Witness ==
    /\ reminder_cursor = << >>
    /\ \E a, b \in appointments :
          /\ a.reminder_sent /\ reminders[a.id] = 1
          /\ b.appointment_date < a.appointment_date
          /\ ~b.reminder_sent /\ reminders[b.id] = 0

(***************************************************************************)
(* C16.  When the provider refuses the message for one record of a         *)
(* reminder or follow-up run, that record's flag stays false and the run   *)
(* goes on: the records after it in the run's result are still to be       *)
(* visited, none is dropped.  A later run that finds anything finds every  *)
(* record whose flag is false and whose date is inside the window, so the  *)
(* record is taken up again.                                               *)
(***************************************************************************)
C16_FailedDispatchKeepsFlagAndGoesOn ==
    [][ /\ (reminder_cursor = << >> /\ reminder_cursor' # << >>) =>
              \A a \in appointments :
                 ( /\ a.reminder_sent = FALSE
                   /\ a.appointment_date >= now + Hours(23)
                   /\ a.appointment_date <= now + Hours(25) ) =>
                     \E i \in 1..Len(reminder_cursor') : reminder_cursor'[i] = a
        /\ (follow_up_cursor = << >> /\ follow_up_cursor' # << >>) =>
              \A a \in appointments :
                 ( /\ a.follow_up_sent = FALSE
                   /\ a.appointment_date >= now - Hours(24)
                   /\ a.appointment_date <= now ) =>
                     \E i \in 1..Len(follow_up_cursor') : follow_up_cursor'[i] = a
        /\ (reminder_cursor # << >> /\ reminder_cursor' # reminder_cursor) =>
              /\ reminder_cursor' = Tail(reminder_cursor)
              /\ ~ReminderDispatched(Head(reminder_cursor).id) =>
                    \A b \in appointments' :
                       b.id = Head(reminder_cursor).id => b.reminder_sent = FALSE
        /\ (follow_up_cursor # << >> /\ follow_up_cursor' # follow_up_cursor) =>
              /\ follow_up_cursor' = Tail(follow_up_cursor)
              /\ ~FollowUpDispatched(Head(follow_up_cursor).id) =>
                    \A b \in appointments' :
                       b.id = Head(follow_up_cursor).id => b.follow_up_sent = FALSE
      ]_vars

\* two records of one reminder run: the provider refused the first, which
\* keeps reminder_sent false, and the run went on to remind the second
C16_Witness ==
    \E a, b \in appointments :
       /\ a.id < b.id
       /\ a.appointment_date = b.appointment_date
       /\ ~a.reminder_sent /\ reminders[a.id] = 0 /\ a.id \notin reminder_lost
       /\ b.reminder_sent /\ reminders[b.id] = 1

(***************************************************************************)
(* C17.  A run of send_follow_up visits only what its query returned:      *)
(* stored records dated within [now - 24 h, now] with follow_up_sent       *)
(* false.  A follow-up is handed to the provider only for the record being *)
(* visited, never before that record's appointment_date, and an            *)
(* appointment whose follow_up_sent update never failed has had at most    *)
(* one follow-up accepted.                                                 *)
(***************************************************************************)
C17_FollowUpOnlyAfterAndOnce ==
    [][ /\ follow_up_cursor = << >> =>
              \A i \in 1..Len(follow_up_cursor') :
                 LET a == follow_up_cursor'[i]
                 IN  /\ a \in appointments
                     /\ a.appointment_date >= now - Hours(24)
                     /\ a.appointment_date <= now
                     /\ a.follow_up_sent = FALSE
        /\ follow_up_cursor # << >> =>
              follow_up_cursor' \in {follow_up_cursor, Tail(follow_up_cursor)}
        /\ \A id \in Ids :
              /\ follow_ups'[id] # follow_ups[id] =>
                    /\ follow_up_cursor # << >>
                    /\ Head(follow_up_cursor).id = id
                    /\ follow_up_cursor' = Tail(follow_up_cursor)
                    /\ FollowUpDispatched(id)
                    /\ Head(follow_up_cursor).appointment_date <= now
              /\ id \notin follow_up_lost' => follow_ups'[id] <= 1 ]_vars

\* a run is about to visit record b; record a, stored after b, flagged and
\* still inside the window, is not in the run's result: an earlier run, in
\* which b's dispatch failed, followed a up, once
C17_Witness ==
    \E a, b \in appointments :
       /\ a.follow_up_sent /\ follow_ups[a.id] = 1 /\ a.id \notin follow_up_lost
       /\ a.appointment_date >= now - Hours(24) /\ a.appointment_date <= now
       /\ b.id < a.id
       /\ follow_up_cursor = << b >>

(***************************************************************************)
(* C18.  Whatever the interleaving of requests, reminder runs and          *)
(* follow-up runs, no step turns reminder_sent or follow_up_sent of a      *)
(* stored appointment from true to false.                                  *)
(***************************************************************************)
C18_FlagsNeverReset ==
    [][ \A a \in appointments, b \in appointments' :
          a.id = b.id =>
             /\ a.reminder_sent => b.reminder_sent
             /\ a.follow_up_sent => b.follow_up_sent ]_vars

\* an appointment that was reminded and, a day later, followed up
C18_Witness ==
    \E a \in appointments : a.reminder_sent /\ a.follow_up_sent

(***************************************************************************)
(* C19.  Whatever the interleaving: a stored record keeps its              *)
(* phone_number, service and appointment_date; a step of a reminder run    *)
(* changes nothing but reminder_sent of the record it visits, and only     *)
(* when its reminder was dispatched; a step of a follow-up run changes     *)
(* nothing but follow_up_sent of the record it visits, and only when its   *)
(* follow-up was dispatched; the queries change nothing; so neither sweep  *)
(* inserts or deletes, and neither touches the other's flag.               *)
(***************************************************************************)
C19_SweepsChangeOnlyTheirFlag ==
    [][ /\ \A a \in appointments, b \in appointments' :
              a.id = b.id =>
                 /\ b.phone_number = a.phone_number
                 /\ b.service = a.service
                 /\ b.appointment_date = a.appointment_date
        /\ reminder_cursor' # reminder_cursor =>
              \/ appointments' = appointments
              \/ /\ reminder_cursor # << >>
                 /\ ReminderDispatched(Head(reminder_cursor).id)
                 /\ appointments' =
                       { IF a.id = Head(reminder_cursor).id
                         THEN [a EXCEPT !.reminder_sent = TRUE]
                         ELSE a : a \in appointments }
        /\ follow_up_cursor' # follow_up_cursor =>
              \/ appointments' = appointments
              \/ /\ follow_up_cursor # << >>
                 /\ FollowUpDispatched(Head(follow_up_cursor).id)
                 /\ appointments' =
                       { IF a.id = Head(follow_up_cursor).id
                         THEN [a EXCEPT !.follow_up_sent = TRUE]
                         ELSE a : a \in appointments } ]_vars

\* a record with both flags set, each by its own sweep, next to a record of
\* the same sender that no sweep has touched
C19_Witness ==
    \E a, b \in appointments :
       /\ a.reminder_sent /\ reminders[a.id] >= 1
       /\ a.follow_up_sent /\ follow_ups[a.id] >= 1
       /\ b.phone_number = a.phone_number
       /\ ~b.reminder_sent /\ ~b.follow_up_sent
       /\ reminders[b.id] = 0 /\ follow_ups[b.id] = 0

(***************************************************************************)
(* C20.  A "cancel_booking" message from a sender who has several stored   *)
(* appointments with appointment_date >= now: the one deleted, and named   *)
(* in the reply, is the one with the earliest appointment_date.  The code  *)
(* violates it: the cancellation branch is never reached (C1), and its     *)
(* find_one has no sort, so the document it would take is the first the    *)
(* store returns, not the nearest.                                         *)
(***************************************************************************)
C20_CancelTakesNearest ==
    [][ LET future == { a \in appointments :
                          /\ a.phone_number = last'.from
                          /\ a.appointment_date >= now }
        IN  ( /\ HandledCleanly(last')
              /\ "cancel_booking" \in Mentions[last'.body]
              /\ Cardinality(future) >= 2 ) =>
              \E a \in future :
                 /\ \A b \in future : a.appointment_date <= b.appointment_date
                 /\ appointments' = appointments \ {a}
                 /\ last'.reply.kind = "cancelled"
                 /\ last'.reply.date = a.appointment_date ]_vars

(***************************************************************************)
(* C21.  With the reminder job running every minute and the provider       *)
(* accepting, every appointment the date branch stored has had a reminder  *)
(* dispatched by the time its appointment_date is reached.  The code       *)
(* violates it: send_reminder looks only at appointments 23 to 25 hours    *)
(* ahead, so an appointment stored less than 23 hours before its time is   *)
(* never inside the window, although the confirmation promised a reminder. *)
(***************************************************************************)
C21_RemindedBeforeAppointment ==
    \A a \in appointments :
       a.appointment_date <= now => reminders[a.id] >= 1

====
